---- MODULE Spec2Model ----
(***************************************************************************)
(* A model of sunxspex's LoadSpec (sunxspex_fitting/data_loader.py): the   *)
(* greedy minimum-count grouping of channels (group_cts,                   *)
(* group_pha_finder), the reversible rebinning of the loaded spectra       *)
(* (rebin, undo_rebin) and the merge of two collections (__add__); and of   *)
(* the construction of a SpectrumData (instruments/spectrum_data.py).      *)
(*                                                                         *)
(* Python values are tagged records: [type |-> "int", val |-> 3],          *)
(* [type |-> "NoneType"], ...  A raised exception is the name of its       *)
(* class; "none" stands for a normal return.                               *)
(***************************************************************************)
EXTENDS Integers, Sequences, FiniteSets, TLC

VARIABLES
    heap,       \* the loader objects: object id -> record
    pre_rebin,  \* history: object id -> its record when it was last not rebinned
    colls,      \* the LoadSpec objects: name -> attributes
    last,       \* history: the last call, its argument and what it raised
    gc,         \* a call of group_cts: its arguments and its result
    pf,         \* a call of group_pha_finder: its arguments, its loop, its result
    sd          \* a construction of a SpectrumData: its arguments and its outcome

vars == <<heap, pre_rebin, colls, last, gc, pf, sd>>

-----------------------------------------------------------------------------
(* Bounds of the model.                                                    *)

\* channels of a loaded spectrum, and the longest input of a grouping call
MaxChan == 3
\* largest count of one channel given to a grouping call
MaxCount == 2
\* largest threshold (group_min) a request carries
MaxGroupMin == 3
\* the candidate threshold of group_pha_finder is followed up to this value
MaxCand == 7
\* largest size of the counts array given to SpectrumData
MaxSize == 2

-----------------------------------------------------------------------------
(* Python values.                                                          *)

NoneV == [type |-> "NoneType"]

IntV(n) == [type |-> "int", val |-> n]

FloatV(n) == [type |-> "float", val |-> n]

IsNone(v) == v.type = "NoneType"

IsInt(v) == v.type = "int"

RECURSIVE GCD(_, _)
GCD(a, b) == IF b = 0 THEN a ELSE GCD(b, a % b)

\* the quotient n/d of two naturals (d > 0) in lowest terms
Frac(n, d) == LET g == GCD(n, d) IN <<n \div g, d \div g>>

RECURSIVE SumSeq(_)
SumSeq(s) == IF s = <<>> THEN 0 ELSE Head(s) + SumSeq(Tail(s))

\* np.diff(bins).flatten(): the width of every [low, high] interval
Diff(bins) == [i \in 1..Len(bins) |-> bins[i][2] - bins[i][1]]

\* np.mean(bins, axis=1): the centre of every interval
Mids(bins) == [i \in 1..Len(bins) |-> Frac(bins[i][1] + bins[i][2], 2)]

\* contiguous unit-width channels [0,1], [1,2], ..., [n-1,n]
UnitBins(n) == [i \in 1..n |-> <<i - 1, i>>]

-----------------------------------------------------------------------------
(* group_cts: the greedy grouping of channels to a minimum count.          *)

\* the guard of group_cts and group_pha_finder: an int > 0
ValidGroupMin(group_min) == IsInt(group_min) /\ group_min.val > 0

\* an iteration that gives a closed bin the count of its last channel
GroupCtsStepLastCount(st, channel_bins, counts, m, c) ==
    LET count == counts[c] IN
    IF count >= m /\ st.combin = 0 /\ st.reset_bin_counter
    THEN [st EXCEPT !.binned_channel = Append(@, channel_bins[c]),
                    !.binned_counts = Append(@, count)]
    ELSE LET start == IF st.reset_bin_counter THEN channel_bins[c][1]
                                              ELSE st.start_e_bin
             combin == st.combin + count
         IN IF combin >= m
            THEN [binned_channel |-> Append(st.binned_channel,
                                            <<start, channel_bins[c][2]>>),
                  binned_counts |-> Append(st.binned_counts, count),
                  combin |-> 0,
                  reset_bin_counter |-> TRUE,
                  start_e_bin |-> start]
            ELSE [st EXCEPT !.combin = combin,
                            !.reset_bin_counter = FALSE,
                            !.start_e_bin = start]

\* an iteration that starts a bin at the first channel holding a count
GroupCtsStepFromFirstCount(st, channel_bins, counts, m, c) ==
    LET count == counts[c] IN
    IF count >= m /\ st.combin = 0 /\ st.reset_bin_counter
    THEN [st EXCEPT !.binned_channel = Append(@, channel_bins[c]),
                    !.binned_counts = Append(@, count)]
    ELSE LET start == IF st.combin = 0 THEN channel_bins[c][1]
                                       ELSE st.start_e_bin
             combin == st.combin + count
         IN IF combin >= m
            THEN [binned_channel |-> Append(st.binned_channel,
                                            <<start, channel_bins[c][2]>>),
                  binned_counts |-> Append(st.binned_counts, combin),
                  combin |-> 0,
                  reset_bin_counter |-> TRUE,
                  start_e_bin |-> start]
            ELSE [st EXCEPT !.combin = combin,
                            !.reset_bin_counter = FALSE,
                            !.start_e_bin = start]

\* one iteration of the for loop of group_cts over channel c
GroupCtsStep(st, channel_bins, counts, m, c) ==
    LET count == counts[c] IN
    IF count >= m /\ st.combin = 0 /\ st.reset_bin_counter
    THEN [st EXCEPT !.binned_channel = Append(@, channel_bins[c]),
                    !.binned_counts = Append(@, count)]
    ELSE LET start == IF st.reset_bin_counter THEN channel_bins[c][1]
                                              ELSE st.start_e_bin
             combin == st.combin + count
         IN IF combin >= m
            THEN [binned_channel |-> Append(st.binned_channel,
                                            <<start, channel_bins[c][2]>>),
                  binned_counts |-> Append(st.binned_counts, combin),
                  combin |-> 0,
                  reset_bin_counter |-> TRUE,
                  start_e_bin |-> start]
            ELSE [st EXCEPT !.combin = combin,
                            !.reset_bin_counter = FALSE,
                            !.start_e_bin = start]

RECURSIVE GroupCtsLoop(_, _, _, _, _)
GroupCtsLoop(st, channel_bins, counts, m, c) ==
    IF c > Len(counts) THEN st
    ELSE GroupCtsLoop(GroupCtsStep(st, channel_bins, counts, m, c),
                      channel_bins, counts, m, c + 1)

\* the state of the loop before the first channel (start_e_bin is unbound)
GroupCtsStart ==
    [binned_channel |-> <<>>, binned_counts |-> <<>>, combin |-> 0,
     reset_bin_counter |-> TRUE, start_e_bin |-> 0]

\* the channels whose upper edge is not below the last edge
RemainderBinsFromLastEdge(channel_bins, last_edge) ==
    SelectSeq(channel_bins, LAMBDA b : b[2] >= last_edge)

\* channel_bins[np.where(channel_bins[:,1] > last_edge)]
RemainderBins(channel_bins, last_edge) ==
    SelectSeq(channel_bins, LAMBDA b : b[2] > last_edge)

\* lines 584-592 for the state st the loop ends in: the channels beyond the
\* last closed bin are appended with a count of 0
GroupCtsResult(channel_bins, st) ==
    IF st.binned_channel = <<>>
    \* np.array([])[-1,-1]: too many indices for a 1-d array
    THEN [raised |-> "IndexError", bins |-> <<>>, counts |-> <<>>,
          leftover |-> st.combin, diagnostic |-> FALSE]
    ELSE LET remainder_bins ==
                 RemainderBins(channel_bins,
                               st.binned_channel[Len(st.binned_channel)][2])
         IN [raised |-> "none",
             bins |-> st.binned_channel \o remainder_bins,
             counts |-> st.binned_counts
                        \o [i \in 1..Len(remainder_bins) |-> 0],
             leftover |-> st.combin,
             diagnostic |-> st.combin > 0]

\* a group_cts whose guard turns away None only
GroupCtsGuardsNoneOnly(channel_bins, counts, group_min) ==
    IF IsNone(group_min)
    THEN [raised |-> "none", bins |-> channel_bins, counts |-> counts,
          leftover |-> 0, diagnostic |-> FALSE]
    ELSE GroupCtsResult(channel_bins,
                        GroupCtsLoop(GroupCtsStart, channel_bins, counts,
                                     group_min.val, 1))

\* group_cts: [raised, bins, counts, leftover (the count the diagnostic
\* reports), diagnostic (whether a message is printed)]
group_cts(channel_bins, counts, group_min) ==
    IF ~ValidGroupMin(group_min)
    THEN [raised |-> "none", bins |-> channel_bins, counts |-> counts,
          leftover |-> 0, diagnostic |-> ~IsNone(group_min)]
    ELSE GroupCtsResult(channel_bins,
                        GroupCtsLoop(GroupCtsStart, channel_bins, counts,
                                     group_min.val, 1))

-----------------------------------------------------------------------------
(* group_pha_finder: the smallest threshold that leaves nothing over.      *)

\* an iteration that closes a bin only when the count exceeds the threshold
PhaFinderStepStrict(st, channels, counts, m, c) ==
    LET count == counts[c] IN
    IF count > m /\ st.combin = 0
    THEN [st EXCEPT !.binned_channel = Append(@, channels[c])]
    ELSE LET start == IF st.combin = 0 THEN channels[c][1]
                                       ELSE st.start_e_bin
             combin == st.combin + count
         IN IF combin > m
            THEN [binned_channel |-> Append(st.binned_channel,
                                            <<start, channels[c][2]>>),
                  combin |-> 0, start_e_bin |-> start]
            ELSE [st EXCEPT !.combin = combin, !.start_e_bin = start]

\* one iteration of the for loop of group_pha_finder over channel c
PhaFinderStep(st, channels, counts, m, c) ==
    LET count == counts[c] IN
    IF count >= m /\ st.combin = 0
    THEN [st EXCEPT !.binned_channel = Append(@, channels[c])]
    ELSE LET start == IF st.combin = 0 THEN channels[c][1]
                                       ELSE st.start_e_bin
             combin == st.combin + count
         IN IF combin >= m
            THEN [binned_channel |-> Append(st.binned_channel,
                                            <<start, channels[c][2]>>),
                  combin |-> 0, start_e_bin |-> start]
            ELSE [st EXCEPT !.combin = combin, !.start_e_bin = start]

RECURSIVE PhaFinderLoop(_, _, _, _, _)
PhaFinderLoop(st, channels, counts, m, c) ==
    IF c > Len(counts) THEN st
    ELSE PhaFinderLoop(PhaFinderStep(st, channels, counts, m, c),
                       channels, counts, m, c + 1)

\* one pass of the while loop: the bins closed and the count left over
PhaFinderPass(channels, counts, m) ==
    PhaFinderLoop([binned_channel |-> <<>>, combin |-> 0, start_e_bin |-> 0],
                  channels, counts, m, 1)

-----------------------------------------------------------------------------
(* The record of one loaded spectrum (the loader object a collection       *)
(* holds under "spectrumN"), and its archive in "extras".                  *)

\* photon bins of a loaded spectrum
NPhot == 2
\* effective exposure of a loaded spectrum
Exposure == 2

\* (counts / binning) / effective_exposure
CountRate(counts, binning, exposure) ==
    [i \in 1..Len(counts) |-> Frac(counts[i], binning[i] * exposure)]

\* (sqrt(counts) / binning) / effective_exposure, held as its square
CountRateError(counts, binning, exposure) ==
    [i \in 1..Len(counts) |->
        Frac(counts[i], (binning[i] * exposure) * (binning[i] * exposure))]

\* "original_" + s_att
OriginalKey(s_att) ==
    CASE s_att = "photon_channel_bins" -> "original_photon_channel_bins"
      [] s_att = "count_channel_bins" -> "original_count_channel_bins"
      [] s_att = "count_channel_mids" -> "original_count_channel_mids"
      [] s_att = "count_channel_binning" -> "original_count_channel_binning"
      [] s_att = "counts" -> "original_counts"
      [] s_att = "count_error" -> "original_count_error"
      [] s_att = "count_rate" -> "original_count_rate"
      [] s_att = "count_rate_error" -> "original_count_rate_error"
      [] s_att = "srm" -> "original_srm"

\* the record a loader hands over for the given counts, read from `file`
LoadedRecord(counts, file) ==
    LET bins == UnitBins(Len(counts)) IN
    [photon_channel_bins |-> UnitBins(NPhot),
     count_channel_bins |-> bins,
     count_channel_mids |-> Mids(bins),
     count_channel_binning |-> Diff(bins),
     counts |-> counts,
     count_error |-> counts,
     count_rate |-> CountRate(counts, Diff(bins), Exposure),
     count_rate_error |-> CountRateError(counts, Diff(bins), Exposure),
     effective_exposure |-> Exposure,
     srm |-> [p \in 1..NPhot |-> [k \in 1..Len(counts) |-> p + k]],
     extras |-> [x \in {"pha.file"} |-> file]]

\* the s_att of the loops of _rebin_loaded_spec and undo_rebin
ArchivedAtts(rec) == DOMAIN rec \ {"effective_exposure", "extras"}

\* _rebin_check: has the spectrum been rebinned
_rebin_check(rec) == "original_srm" \in DOMAIN rec.extras

\* the response matrix projected onto the current count bins: every new
\* column is the sum of the original columns its bin spans
_rebin_srm(rec) ==
    LET old_bins == rec.extras["original_count_channel_bins"]
        old_srm == rec.extras["original_srm"]
        new_bins == rec.count_channel_bins
        Cols(b) == {k \in 1..Len(old_bins) :
                        old_bins[k][1] >= b[1] /\ old_bins[k][2] <= b[2]}
        RowSum(row, b) ==
            SumSeq([j \in 1..Len(row) |-> IF j \in Cols(b) THEN row[j] ELSE 0])
    IN [p \in 1..Len(old_srm) |->
           [i \in 1..Len(new_bins) |-> RowSum(old_srm[p], new_bins[i])]]

\* group_spec that groups the current bins and counts of a rebinned spectrum
GroupSpecCurrent(rec, group_min, _orig_in_extras) ==
    group_cts(rec.count_channel_bins, rec.counts, group_min)

\* group_spec: group the archived original channels when there are any
group_spec(rec, group_min, _orig_in_extras) ==
    LET counts == IF ~_orig_in_extras THEN rec.counts
                  ELSE rec.extras["original_counts"]
        channel_bins == IF ~_orig_in_extras THEN rec.count_channel_bins
                        ELSE rec.extras["original_count_channel_bins"]
    IN group_cts(channel_bins, counts, group_min)

\* lines 376-382 for the result g of group_spec
RebinDataOf(rec, g, _orig_in_extras) ==
    [raised |-> g.raised,
     new_bins |-> g.bins,
     new_counts |-> g.counts,
     new_binning |-> Diff(g.bins),
     bin_mids |-> Mids(g.bins),
     ctr |-> CountRate(g.counts, Diff(g.bins), rec.effective_exposure),
     ctr_err |-> CountRateError(g.counts, Diff(g.bins),
                                rec.effective_exposure),
     _orig_in_extras |-> _orig_in_extras]

\* _rebin_data: the new bins, counts, widths, centres and rates
_rebin_data(rec, group_min) ==
    RebinDataOf(rec, group_spec(rec, group_min, _rebin_check(rec)),
                _rebin_check(rec))

\* an archive that leaves the count rate errors out
ArchiveWithoutRateError(rec) ==
    LET atts == ArchivedAtts(rec) \ {"count_rate_error"}
        keys == {OriginalKey(a) : a \in atts}
        AttOf(k) == CHOOSE a \in atts : OriginalKey(a) = k
    IN [k \in DOMAIN rec.extras \cup keys |->
           IF k \in keys THEN rec[AttOf(k)] ELSE rec.extras[k]]

\* the extras with every archived attribute stored under "original_" + s_att
ArchiveOriginals(rec) ==
    LET atts == ArchivedAtts(rec)
        keys == {OriginalKey(a) : a \in atts}
        AttOf(k) == CHOOSE a \in atts : OriginalKey(a) = k
    IN [k \in DOMAIN rec.extras \cup keys |->
           IF k \in keys THEN rec[AttOf(k)] ELSE rec.extras[k]]

\* line 433: the response matrix follows the new count bins
SetSrm(rec) == [rec EXCEPT !.srm = _rebin_srm(rec)]

\* a store that archives the current values at every rebin
StoreRebinnedArchivesAgain(rec, d) ==
    SetSrm([rec EXCEPT
              !.extras = ArchiveOriginals(rec),
              !.count_channel_bins = d.new_bins,
              !.count_channel_mids = d.bin_mids,
              !.count_channel_binning = d.new_binning,
              !.counts = d.new_counts,
              !.count_rate = d.ctr,
              !.count_rate_error = d.ctr_err])

\* a store that sets the new bins, centres and widths and leaves the counts
\* and the rates
StoreRebinnedBinsOnly(rec, d) ==
    SetSrm([rec EXCEPT
              !.extras = IF ~d._orig_in_extras THEN ArchiveOriginals(rec)
                         ELSE @,
              !.count_channel_bins = d.new_bins,
              !.count_channel_mids = d.bin_mids,
              !.count_channel_binning = d.new_binning])

\* lines 406-424 for the result d of _rebin_data
StoreRebinned(rec, d) ==
    SetSrm([rec EXCEPT
              !.extras = IF ~d._orig_in_extras THEN ArchiveOriginals(rec)
                         ELSE @,
              !.count_channel_bins = d.new_bins,
              !.count_channel_mids = d.bin_mids,
              !.count_channel_binning = d.new_binning,
              !.counts = d.new_counts,
              !.count_rate = d.ctr,
              !.count_rate_error = d.ctr_err])

\* lines 403-434 for the result d of _rebin_data
RebinLoadedSpecOf(rec, d) ==
    IF d.raised # "none"
    THEN [raised |-> d.raised, rec |-> rec, new_bins |-> <<>>]
    ELSE [raised |-> "none", rec |-> StoreRebinned(rec, d),
          new_bins |-> d.new_bins]

\* _rebin_loaded_spec (axis="count"): [raised, rec, new_bins]
_rebin_loaded_spec(rec, group_min) ==
    RebinLoadedSpecOf(rec, _rebin_data(rec, group_min))

\* the keys of a record in the order `for s_att in rec().keys()` visits them
RecordKeys ==
    <<"photon_channel_bins", "count_channel_bins", "count_channel_mids",
      "count_channel_binning", "counts", "count_error", "count_rate",
      "count_rate_error", "effective_exposure", "srm", "extras">>

\* a loop of undo_rebin that moves the values back and keeps the archive
RECURSIVE RestoreKeepsArchive(_, _)
RestoreKeepsArchive(rec, i) ==
    IF i > Len(RecordKeys) THEN [raised |-> "none", rec |-> rec]
    ELSE IF RecordKeys[i] \in {"effective_exposure", "extras"}
         THEN RestoreKeepsArchive(rec, i + 1)
         ELSE RestoreKeepsArchive(
                [rec EXCEPT ![RecordKeys[i]] =
                                rec.extras[OriginalKey(RecordKeys[i])]],
                i + 1)

\* the loop of undo_rebin over s_att, from the i-th key on: KeyError at the
\* first archived copy that is missing
RECURSIVE RestoreLoop(_, _)
RestoreLoop(rec, i) ==
    IF i > Len(RecordKeys) THEN [raised |-> "none", rec |-> rec]
    ELSE LET s_att == RecordKeys[i] IN
         IF s_att \in {"effective_exposure", "extras"}
         THEN RestoreLoop(rec, i + 1)
         ELSE IF OriginalKey(s_att) \notin DOMAIN rec.extras
              THEN [raised |-> "KeyError", rec |-> rec]
              ELSE RestoreLoop(
                     [a \in DOMAIN rec |->
                        IF a = s_att THEN rec.extras[OriginalKey(s_att)]
                        ELSE IF a = "extras"
                             THEN [k \in DOMAIN rec.extras
                                         \ {OriginalKey(s_att)} |->
                                     rec.extras[k]]
                             ELSE rec[a]],
                     i + 1)

-----------------------------------------------------------------------------
(* A LoadSpec object: loaded_spec_data is the dict "spectrumN" -> loader   *)
(* object, held as the sequence of its items [key |-> N, obj |-> id] in    *)
(* insertion order; attrs are the attributes set so far (hasattr).         *)

EmptyMap == [k \in {} |-> NoneV]

AllV == [type |-> "str", kind |-> "all"]

NewLoadSpec(items) ==
    [exists |-> TRUE, loaded_spec_data |-> items, attrs |-> {},
     _rebinned_edges |-> EmptyMap, _rebin_setting |-> EmptyMap,
     _undo_rebin |-> NoneV]

NoLoadSpec ==
    [exists |-> FALSE, loaded_spec_data |-> <<>>, attrs |-> {},
     _rebinned_edges |-> EmptyMap, _rebin_setting |-> EmptyMap,
     _undo_rebin |-> NoneV]

\* list(loaded_spec_data.keys())
Keys(coll) ==
    [i \in 1..Len(coll.loaded_spec_data) |-> coll.loaded_spec_data[i].key]

KeySet(coll) == {coll.loaded_spec_data[i].key :
                    i \in 1..Len(coll.loaded_spec_data)}

\* loaded_spec_data[spectrum]
ObjOf(coll, key) ==
    LET i == CHOOSE j \in 1..Len(coll.loaded_spec_data) :
                 coll.loaded_spec_data[j].key = key
    IN coll.loaded_spec_data[i].obj

Objs(coll) == {coll.loaded_spec_data[i].obj :
                  i \in 1..Len(coll.loaded_spec_data)}

\* loaded_spec_data[key] = obj
DictSet(items, key, obj) ==
    IF \E i \in 1..Len(items) : items[i].key = key
    THEN [i \in 1..Len(items) |->
             IF items[i].key = key THEN [key |-> key, obj |-> obj]
             ELSE items[i]]
    ELSE Append(items, [key |-> key, obj |-> obj])

\* dict(zip(keys, values))
DictZip(keys, values) ==
    LET n == IF Len(keys) < Len(values) THEN Len(keys) ELSE Len(values)
        Last(k) == CHOOSE i \in 1..n :
                     keys[i] = k /\ \A j \in (i + 1)..n : keys[j] # k
    IN [k \in {keys[i] : i \in 1..n} |-> values[Last(k)]]

-----------------------------------------------------------------------------
(* rebin (setter).                                                         *)

\* lines 231-240: a dict is resolved to its "all" entry or to one entry per
\* loaded spectrum (None for a spectrum the dict does not name)
ResolveDict(coll, group_mins) ==
    IF group_mins.type # "dict" THEN group_mins
    ELSE IF group_mins.all.type # "absent" THEN group_mins.all
    ELSE LET spec_list == Keys(coll) IN
         [type |-> "list",
          vals |-> [i \in 1..Len(spec_list) |->
                       IF spec_list[i] \in DOMAIN group_mins.per
                       THEN group_mins.per[spec_list[i]] ELSE NoneV]]

RECURSIVE RebinLoop(_, _, _, _, _)

\* line 255 for the result r of _rebin_loaded_spec on the i-th spectrum
RebinLoopNext(h, items, group_mins, i, bin_edges, r) ==
    IF r.raised # "none"
    THEN [raised |-> r.raised, heap |-> h, bin_edges |-> bin_edges]
    ELSE RebinLoop([h EXCEPT ![items[i].obj] = r.rec], items, group_mins,
                   i + 1, Append(bin_edges, r.new_bins))

\* the loop of lines 253-255 from the i-th spectrum on
RebinLoop(h, items, group_mins, i, bin_edges) ==
    IF i > Len(items) \/ i > Len(group_mins)
    THEN [raised |-> "none", heap |-> h, bin_edges |-> bin_edges]
    ELSE RebinLoopNext(h, items, group_mins, i, bin_edges,
                       _rebin_loaded_spec(h[items[i].obj], group_mins[i]))

\* lines 258-260 for the result r of the loop
RecordRebin(coll, gms, r) ==
    IF r.raised # "none"
    THEN [raised |-> r.raised, coll |-> coll, heap |-> r.heap]
    ELSE [raised |-> "none",
          coll |-> [coll EXCEPT
                      !.attrs = @ \cup {"_rebinned_edges", "_rebin_setting"},
                      !._rebinned_edges = DictZip(Keys(coll), r.bin_edges),
                      !._rebin_setting = DictZip(Keys(coll), gms)],
          heap |-> r.heap]

\* lines 251-260 for the thresholds gms, one for every loaded spectrum
RebinAll(coll, h, gms) ==
    RecordRebin(coll, gms, RebinLoop(h, coll.loaded_spec_data, gms, 1, <<>>))

\* lines 242-260 for the value gm the dict, if any, resolved to
RebinResolved(coll, h, gm) ==
    IF gm.type = "NoneType"
    THEN [raised |-> "none", coll |-> coll, heap |-> h]
    ELSE IF gm.type = "int"
    THEN RebinAll(coll, h, [i \in 1..Len(Keys(coll)) |-> gm])
    ELSE IF gm.type = "list"
    THEN IF Len(gm.vals) # Len(Keys(coll))
         THEN [raised |-> "none", coll |-> coll, heap |-> h]
         ELSE RebinAll(coll, h, gm.vals)
    \* zip(keys, group_mins): the value is not iterable
    ELSE [raised |-> "TypeError", coll |-> coll, heap |-> h]

\* rebin = group_mins on coll: [raised, coll, heap]
RebinSetter(coll, h, group_mins) ==
    RebinResolved(coll, h, ResolveDict(coll, group_mins))

-----------------------------------------------------------------------------
(* undo_rebin (property and setter).                                       *)

\* a del that drops the settings and the edges of every spectrum
DelSettingsOfAll(coll, spec) ==
    IF "_rebin_setting" \notin coll.attrs
    THEN [raised |-> "AttributeError", coll |-> coll]
    ELSE IF spec \notin DOMAIN coll._rebin_setting
    THEN [raised |-> "KeyError", coll |-> coll]
    ELSE IF "_rebinned_edges" \notin coll.attrs
    THEN [raised |-> "AttributeError", coll |-> coll]
    ELSE IF spec \notin DOMAIN coll._rebinned_edges
    THEN [raised |-> "KeyError", coll |-> coll]
    ELSE [raised |-> "none",
          coll |-> [coll EXCEPT !._rebin_setting = EmptyMap,
                                !._rebinned_edges = EmptyMap]]

\* del self._rebin_setting[spec], self._rebinned_edges[spec]
DelSettings(coll, spec) ==
    IF "_rebin_setting" \notin coll.attrs
    THEN [raised |-> "AttributeError", coll |-> coll]
    ELSE IF spec \notin DOMAIN coll._rebin_setting
    THEN [raised |-> "KeyError", coll |-> coll]
    ELSE LET c1 == [coll EXCEPT !._rebin_setting =
                       [k \in DOMAIN @ \ {spec} |-> @[k]]]
         IN IF "_rebinned_edges" \notin c1.attrs
            THEN [raised |-> "AttributeError", coll |-> c1]
            ELSE IF spec \notin DOMAIN c1._rebinned_edges
            THEN [raised |-> "KeyError", coll |-> c1]
            ELSE [raised |-> "none",
                  coll |-> [c1 EXCEPT !._rebinned_edges =
                               [k \in DOMAIN @ \ {spec} |-> @[k]]]]

RECURSIVE UndoLoop(_, _, _, _)

\* lines 303-306 for the result r of the loop over s_att
UndoRestored(coll, h, spec_list, i, o, r) ==
    IF r.raised # "none"
    THEN [raised |-> r.raised, coll |-> coll, heap |-> [h EXCEPT ![o] = r.rec]]
    ELSE UndoLoop(coll, [h EXCEPT ![o] = r.rec], spec_list, i + 1)

\* lines 301-306 for the result d of the del statement
UndoDeleted(h, spec_list, i, o, d) ==
    IF d.raised # "none"
    THEN [raised |-> d.raised, coll |-> d.coll, heap |-> h]
    ELSE UndoRestored(d.coll, h, spec_list, i, o, RestoreLoop(h[o], 1))

\* a loop that restores every selected spectrum without asking whether it
\* has been rebinned
UndoLoopNoCheck(coll, h, spec_list, i) ==
    IF i > Len(spec_list) THEN [raised |-> "none", coll |-> coll, heap |-> h]
    ELSE IF spec_list[i] \notin KeySet(coll)
         THEN [raised |-> "KeyError", coll |-> coll, heap |-> h]
         ELSE UndoDeleted(h, spec_list, i, ObjOf(coll, spec_list[i]),
                          DelSettings(coll, spec_list[i]))

\* the loop of lines 297-308 from the i-th selected spectrum on
UndoLoop(coll, h, spec_list, i) ==
    IF i > Len(spec_list) THEN [raised |-> "none", coll |-> coll, heap |-> h]
    ELSE IF spec_list[i] \notin KeySet(coll)
         \* self.loaded_spec_data[spectrum] in _rebin_check
         THEN [raised |-> "KeyError", coll |-> coll, heap |-> h]
         ELSE IF ~_rebin_check(h[ObjOf(coll, spec_list[i])])
              THEN UndoLoop(coll, h, spec_list, i + 1)
              ELSE UndoDeleted(h, spec_list, i, ObjOf(coll, spec_list[i]),
                               DelSettings(coll, spec_list[i]))

\* an undo that takes the selector None for "all"
UndoSelectedNoneAsAll(coll, h) ==
    UndoLoop(coll, h,
             IF coll._undo_rebin.type = "list" THEN coll._undo_rebin.elems
             ELSE Keys(coll),
             1)

\* lines 292-308 once _undo_rebin is set
UndoSelected(coll, h) ==
    IF coll._undo_rebin.type = "NoneType"
    THEN [raised |-> "none", coll |-> coll, heap |-> h]
    ELSE UndoLoop(coll, h,
                  IF coll._undo_rebin.type = "str" THEN Keys(coll)
                  ELSE coll._undo_rebin.elems,
                  1)

\* reading the property undo_rebin: [raised, coll, heap]
UndoRebinGetter(coll, h) ==
    UndoSelected(IF "_undo_rebin" \notin coll.attrs
                 THEN [coll EXCEPT !.attrs = @ \cup {"_undo_rebin"},
                                   !._undo_rebin = AllV]
                 ELSE coll,
                 h)

\* isnumber(word): float(word) succeeds; a ValueError is caught, any other
\* exception is not
isnumber(word) ==
    CASE word.type \in {"int", "float"} -> [raised |-> "none", val |-> TRUE]
      [] word.type = "str" ->
            [raised |-> "none", val |-> word.kind = "number"]
      [] OTHER -> [raised |-> "TypeError", val |-> FALSE]

\* lines 332-345: the value the setter gives _undo_rebin. A string is
\* [type |-> "str", kind |-> k, val |-> n]: "n" (kind "number"),
\* "spectrumn" in any case (kind "spectrum"), "all" in any case, or another
\* string (kind "other"); a key "spectrumn" is held as n.
UndoSelection(spectrum) ==
    IF spectrum.type = "NoneType" THEN [raised |-> "none", val |-> NoneV]
    ELSE IF spectrum.type = "list"
    THEN LET e == spectrum.elems IN
         \* "spectrum"+s with s not a string, or float(s) of a non-number
         IF \E i \in 1..Len(e) : e[i].type # "str"
         THEN [raised |-> "TypeError", val |-> NoneV]
         ELSE LET specs_no == SelectSeq(e, LAMBDA s : s.kind = "number")
                  specs_id == SelectSeq(e, LAMBDA s : s.kind = "spectrum")
                  both == specs_no \o specs_id
              IN [raised |-> "none",
                  val |-> [type |-> "list",
                           elems |-> [i \in 1..Len(both) |-> both[i].val]]]
    ELSE LET n == isnumber(spectrum) IN
         IF n.raised # "none" THEN [raised |-> n.raised, val |-> NoneV]
         ELSE IF n.val
         THEN [raised |-> "none",
               val |-> [type |-> "list", elems |-> <<spectrum.val>>]]
         ELSE IF spectrum.kind = "spectrum"
         THEN [raised |-> "none",
               val |-> [type |-> "list", elems |-> <<spectrum.val>>]]
         ELSE IF spectrum.kind = "all"
         THEN [raised |-> "none", val |-> AllV]
         ELSE [raised |-> "none", val |-> NoneV]

\* lines 347-351 for the selection sel of lines 332-345
UndoRebinSelected(coll, h, sel) ==
    IF sel.raised # "none"
    THEN [raised |-> sel.raised, coll |-> coll, heap |-> h]
    ELSE UndoRebinGetter(
            [coll EXCEPT !.attrs = @ \cup {"_undo_rebin"},
                         !._undo_rebin = sel.val],
            h)

\* undo_rebin = spectrum on coll: [raised, coll, heap]
UndoRebinSetter(coll, h, spectrum) ==
    UndoRebinSelected(coll, h, UndoSelection(spectrum))

-----------------------------------------------------------------------------
(* __add__: the merge of two collections.                                  *)

\* deepcopy(self): every loader object of self is copied to a fresh object
CopiedItems(coll, h) ==
    LET n == Cardinality(DOMAIN h) IN
    [i \in 1..Len(coll.loaded_spec_data) |->
        [key |-> coll.loaded_spec_data[i].key, obj |-> n + i]]

\* a loop of __add__ that numbers other's spectra from self's last key
RECURSIVE AddLoopFromLast(_, _, _, _)
AddLoopFromLast(items, other_items, _last_in_self_, c) ==
    IF c >= Len(other_items) THEN items
    ELSE AddLoopFromLast(DictSet(items, _last_in_self_ + c,
                                 other_items[c + 1].obj),
                         other_items, _last_in_self_, c + 1)

\* lines 606-607: other's spectra are added under the keys that follow
RECURSIVE AddLoop(_, _, _, _)
AddLoop(items, other_items, _last_in_self_, c) ==
    IF c >= Len(other_items) THEN items
    ELSE AddLoop(DictSet(items, _last_in_self_ + 1 + c,
                         other_items[c + 1].obj),
                 other_items, _last_in_self_, c + 1)

\* self + other: [raised, coll (the new LoadSpec), heap, pre_rebin]
Add(self, other, h, pre) ==
    IF self.loaded_spec_data = <<>>
    \* list(self.loaded_spec_data.keys())[-1]
    THEN [raised |-> "IndexError", coll |-> NoLoadSpec, heap |-> h,
          pre_rebin |-> pre]
    ELSE LET _last_in_self_ ==
                 self.loaded_spec_data[Len(self.loaded_spec_data)].key
             copied == CopiedItems(self, h)
             n == Cardinality(DOMAIN h)
             Src(o) == self.loaded_spec_data[o - n].obj
             fresh == {copied[i].obj : i \in 1..Len(copied)}
         IN [raised |-> "none",
             coll |-> [self EXCEPT !.loaded_spec_data =
                          AddLoop(copied, other.loaded_spec_data,
                                  _last_in_self_, 0)],
             heap |-> [o \in DOMAIN h \cup fresh |->
                          IF o \in fresh THEN h[Src(o)] ELSE h[o]],
             pre_rebin |-> [o \in DOMAIN pre \cup fresh |->
                          IF o \in fresh THEN pre[Src(o)] ELSE pre[o]]]

-----------------------------------------------------------------------------
(* SpectrumData (instruments/spectrum_data.py). An array is held as        *)
(* [ndim, shape, data]: data are its elements in row-major order.          *)

Scalar(v) == [ndim |-> 0, shape |-> <<>>, data |-> <<v>>]

Vec(data) == [ndim |-> 1, shape |-> <<Len(data)>>, data |-> data]

Mat(rows, cols) ==
    [ndim |-> 2, shape |-> <<rows, cols>>,
     data |-> [i \in 1..(rows * cols) |-> i]]

\* ndarray.size: the product of the shape
RECURSIVE Prod(_)
Prod(shape) == IF shape = <<>> THEN 1 ELSE Head(shape) * Prod(Tail(shape))

Size(a) == Prod(a.shape)

\* SAMPLE_OPTIONS
SAMPLE_OPTIONS == {"Gaussian", "Poissonian"}

\* whether a quantity of this unit converts to keV, and by which factor
ConvertsToKeV(unit) == unit \in {"keV", "MeV"}

KeVPer(unit) == IF unit = "MeV" THEN 1000 ELSE 1

\* the magnitudes of the quantity kept in the unit they were given in
ValueAsGiven(a, unit) == a

\* (q << u.keV).value: the magnitudes of the quantity in keV
ValueInKeV(a, unit) ==
    [a EXCEPT !.data = [i \in 1..Len(a.data) |-> a.data[i] * KeVPer(unit)]]

\* np.diff of a 1-d array
NpDiff(a) ==
    Vec([i \in 1..(IF Len(a.data) = 0 THEN 0 ELSE Len(a.data) - 1) |->
            a.data[i + 1] - a.data[i]])

\* str(sample_distribution): a string is [type |-> "str", text |-> t]
str(x) == IF x.type = "str" THEN x.text ELSE "None"

\* lines 136-144: the attributes assigned before the arguments are checked
AssignedArgs(args) ==
    [counts |-> args.counts,
     counts_error |-> args.counts_error,
     counts_energy_edges |->
         ValueInKeV(args.counts_energy_edges, args.counts_energy_unit),
     photons_energy_edges |-> args.photons_energy_edges,
     spectral_response_matrix |-> args.spectral_response_matrix,
     effective_exposure |-> args.effective_exposure,
     sample_distribution |-> str(args.sample_distribution)]

\* _check_valid_args without the check of the sizes of the counts arrays
CheckValidArgsWithoutCountsSize(self) ==
    IF ~(/\ self.effective_exposure.ndim <= self.counts.ndim
         /\ self.counts.ndim = self.counts_error.ndim
         /\ self.counts_error.ndim = self.counts_energy_edges.ndim
         /\ self.counts_energy_edges.ndim = self.photons_energy_edges.ndim
         /\ self.photons_energy_edges.ndim = 1)
    THEN "1D"
    ELSE IF self.spectral_response_matrix.ndim # 2
    THEN "2D"
    ELSE IF self.sample_distribution \notin SAMPLE_OPTIONS
    THEN "sample_distribution"
    ELSE IF self.spectral_response_matrix.shape
              # <<Size(self.photons_energy_edges) - 1,
                  Size(self.counts_energy_edges) - 1>>
    THEN "srm shape"
    ELSE "none"

\* _check_valid_args without the check of the shape of the response matrix
CheckValidArgsWithoutShape(self) ==
    IF ~(/\ self.effective_exposure.ndim <= self.counts.ndim
         /\ self.counts.ndim = self.counts_error.ndim
         /\ self.counts_error.ndim = self.counts_energy_edges.ndim
         /\ self.counts_energy_edges.ndim = self.photons_energy_edges.ndim
         /\ self.photons_energy_edges.ndim = 1)
    THEN "1D"
    ELSE IF self.spectral_response_matrix.ndim # 2
    THEN "2D"
    ELSE IF self.sample_distribution \notin SAMPLE_OPTIONS
    THEN "sample_distribution"
    ELSE IF ~(/\ \/ Size(self.effective_exposure) = Size(self.counts)
                 \/ Size(self.effective_exposure) = 1
              /\ Size(self.counts) = Size(self.counts_error)
              /\ Size(self.counts_error) = Size(self.counts_energy_edges) - 1)
    THEN "counts size"
    ELSE "none"

\* _check_valid_args that checks the distribution before the dimensions
CheckValidArgsTagFirst(self) ==
    IF self.sample_distribution \notin SAMPLE_OPTIONS
    THEN "sample_distribution"
    ELSE IF ~(/\ self.effective_exposure.ndim <= self.counts.ndim
              /\ self.counts.ndim = self.counts_error.ndim
              /\ self.counts_error.ndim = self.counts_energy_edges.ndim
              /\ self.counts_energy_edges.ndim = self.photons_energy_edges.ndim
              /\ self.photons_energy_edges.ndim = 1)
    THEN "1D"
    ELSE IF self.spectral_response_matrix.ndim # 2
    THEN "2D"
    ELSE IF ~(/\ \/ Size(self.effective_exposure) = Size(self.counts)
                 \/ Size(self.effective_exposure) = 1
              /\ Size(self.counts) = Size(self.counts_error)
              /\ Size(self.counts_error) = Size(self.counts_energy_edges) - 1)
    THEN "counts size"
    ELSE IF self.spectral_response_matrix.shape
              # <<Size(self.photons_energy_edges) - 1,
                  Size(self.counts_energy_edges) - 1>>
    THEN "srm shape"
    ELSE "none"

\* _check_valid_args: "none", or the group of the first check that fails
_check_valid_args(self) ==
    IF ~(/\ self.effective_exposure.ndim <= self.counts.ndim
         /\ self.counts.ndim = self.counts_error.ndim
         /\ self.counts_error.ndim = self.counts_energy_edges.ndim
         /\ self.counts_energy_edges.ndim = self.photons_energy_edges.ndim
         /\ self.photons_energy_edges.ndim = 1)
    THEN "1D"
    ELSE IF self.spectral_response_matrix.ndim # 2
    THEN "2D"
    ELSE IF self.sample_distribution \notin SAMPLE_OPTIONS
    THEN "sample_distribution"
    ELSE IF ~(/\ \/ Size(self.effective_exposure) = Size(self.counts)
                 \/ Size(self.effective_exposure) = 1
              /\ Size(self.counts) = Size(self.counts_error)
              /\ Size(self.counts_error) = Size(self.counts_energy_edges) - 1)
    THEN "counts size"
    ELSE IF self.spectral_response_matrix.shape
              # <<Size(self.photons_energy_edges) - 1,
                  Size(self.counts_energy_edges) - 1>>
    THEN "srm shape"
    ELSE "none"

\* lines 147-151 for the attributes assigned and the outcome of the check
CheckedData(self, failed) ==
    IF failed # "none"
    THEN [raised |-> "ValueError", failed |-> failed, self |-> self,
          returned |-> FALSE]
    ELSE [raised |-> "none", failed |-> "none",
          self |-> self @@
                   [counts_energy_widths |-> NpDiff(self.counts_energy_edges),
                    photons_energy_widths |->
                        NpDiff(self.photons_energy_edges)],
          returned |-> TRUE]

\* SpectrumData(...): [raised, failed (the check that failed), self (the
\* attributes assigned to the object), returned (whether the caller gets
\* the object)]
SpectrumData(args) ==
    IF ~ConvertsToKeV(args.counts_energy_unit)
    \* u.quantity_input turns the call away before __init__ runs
    THEN [raised |-> "UnitsError", failed |-> "units",
          self |-> [n \in {} |-> Scalar(0)], returned |-> FALSE]
    ELSE CheckedData(AssignedArgs(args), _check_valid_args(AssignedArgs(args)))

SdIdle == [pc |-> "idle"]

-----------------------------------------------------------------------------
(* The collections: a (two spectra), b (one spectrum) and e (constructed   *)
(* from empty file lists: no spectrum), and m, the result of one merge.    *)

CollNames == {"a", "b", "e", "m"}

Reverse(s) == [i \in 1..Len(s) |-> s[Len(s) + 1 - i]]

Str(kind, n) == [type |-> "str", kind |-> kind, val |-> n]

ListV(elems) == [type |-> "list", elems |-> elems]

Absent == [type |-> "absent"]

DictAll(v) == [type |-> "dict", all |-> v, per |-> EmptyMap]

DictPer(per) == [type |-> "dict", all |-> Absent, per |-> per]

NoCall ==
    [op |-> "none", coll |-> "none", arg |-> NoneV, raised |-> "none",
     was_rebinned |-> {}]

GcIdle == [pc |-> "idle"]

PfIdle == [pc |-> "idle"]

\* LoadSpec.__init__: spectrum1, spectrum2 of a and spectrum1 of b are
\* loaded with the given counts; the file lists of e are empty
Loaded(cv) ==
    /\ heap = [o \in 1..3 |->
                 CASE o = 1 -> LoadedRecord(cv, "a1.pha")
                   [] o = 2 -> LoadedRecord(Reverse(cv), "a2.pha")
                   [] o = 3 -> LoadedRecord(cv, "b1.pha")]
    /\ pre_rebin = heap
    /\ colls = [c \in CollNames |->
                  CASE c = "a" -> NewLoadSpec(<<[key |-> 1, obj |-> 1],
                                                [key |-> 2, obj |-> 2]>>)
                    [] c = "b" -> NewLoadSpec(<<[key |-> 1, obj |-> 3]>>)
                    [] c = "e" -> NewLoadSpec(<<>>)
                    [] c = "m" -> NoLoadSpec]
    /\ last = NoCall

\* history: the record of every object that was not rebinned before the
\* call and is rebinned after it
Snapshot(h1) ==
    [o \in DOMAIN heap |->
        IF ~_rebin_check(heap[o]) /\ _rebin_check(h1[o])
        THEN heap[o] ELSE pre_rebin[o]]

\* the state after a call on collection c that ended as r tells; history:
\* was_rebinned are the spectra of c that were rebinned before the call
Returned(c, op, arg, r) ==
    /\ heap' = r.heap
    /\ pre_rebin' = Snapshot(r.heap)
    /\ colls' = [colls EXCEPT ![c] = r.coll]
    /\ last' = [op |-> op, coll |-> c, arg |-> arg, raised |-> r.raised,
                was_rebinned |-> {o \in Objs(colls[c]) :
                                    _rebin_check(heap[o])}]
    /\ UNCHANGED <<gc, pf, sd>>

\* the state after x + y ended as r tells
Added(x, y, r) ==
    /\ heap' = r.heap
    /\ pre_rebin' = r.pre_rebin
    /\ colls' = [colls EXCEPT !["m"] = r.coll]
    /\ last' = [op |-> "add", coll |-> "m",
                arg |-> [type |-> "operands", self |-> x, other |-> y],
                raised |-> r.raised, was_rebinned |-> {}]
    /\ UNCHANGED <<gc, pf, sd>>

\* c.rebin = group_mins
Rebin(c, group_mins) ==
    /\ colls[c].exists
    /\ Returned(c, "rebin", group_mins,
                RebinSetter(colls[c], heap, group_mins))

\* c.undo_rebin = spectrum
UndoRebinSet(c, spectrum) ==
    /\ colls[c].exists
    /\ Returned(c, "undo_rebin", spectrum,
                UndoRebinSetter(colls[c], heap, spectrum))

\* c.undo_rebin
UndoRebinGet(c) ==
    /\ colls[c].exists
    /\ Returned(c, "undo_rebin_get", NoneV,
                UndoRebinGetter(colls[c], heap))

\* m = x + y
Merge(x, y) ==
    /\ colls[x].exists /\ colls[y].exists /\ ~colls["m"].exists
    /\ Added(x, y, Add(colls[x], colls[y], heap, pre_rebin))

-----------------------------------------------------------------------------
(* Spec: rebin and undo_rebin on the collection a, for every loaded        *)
(* spectrum within the bounds and every kind of argument.                  *)

\* the counts a loaded spectrum may hold: every channel is empty or holds
\* one count
LoadedCountValues == {0, 1}
LoadedCounts == [1..MaxChan -> LoadedCountValues]

\* the values assigned to rebin: an int (positive or not), None, a float,
\* a dict with "all", a dict naming one spectrum (loaded or not), a list
\* that does not match the loaded spectra, a list that does
RebinInputs ==
    {IntV(n) : n \in 0..MaxGroupMin}
    \cup {NoneV, FloatV(1), DictAll(IntV(2))}
    \cup {DictPer(k :> IntV(2)) : k \in {1, 9}}
    \cup {[type |-> "list", vals |-> <<IntV(1)>>],
          [type |-> "list", vals |-> <<NoneV, IntV(1)>>]}

\* the values assigned to undo_rebin: None, "spectrumN" and N of a loaded
\* and of no loaded spectrum, "all", another string, lists of strings and
\* of numbers
UndoInputs ==
    {NoneV, IntV(1), Str("number", 2), Str("spectrum", 1),
     Str("spectrum", 9), IntV(9), Str("all", 0), Str("other", 0),
     ListV(<<>>), ListV(<<Str("spectrum", 2), Str("number", 1)>>),
     ListV(<<IntV(1), Str("spectrum", 2)>>)}

Init ==
    /\ \E cv \in LoadedCounts : Loaded(cv)
    /\ gc = GcIdle
    /\ pf = PfIdle
    /\ sd = SdIdle

Next ==
    \/ \E group_mins \in RebinInputs : Rebin("a", group_mins)
    \/ \E spectrum \in UndoInputs : UndoRebinSet("a", spectrum)
    \/ UndoRebinGet("a")

Spec == Init /\ [][Next]_vars

-----------------------------------------------------------------------------
(* SpecMerge: one merge of two of a, b and e, with rebin and undo_rebin on *)
(* the operands and on the result.                                         *)

MergeCounts == {<<1, 1, 1>>, <<2, 0, 1>>}

MergeGroupMins == {IntV(1), IntV(2)}

InitMerge ==
    /\ \E cv \in MergeCounts : Loaded(cv)
    /\ gc = GcIdle
    /\ pf = PfIdle
    /\ sd = SdIdle

NextMerge ==
    \/ \E c \in {"a", "b", "m"}, group_mins \in MergeGroupMins :
          Rebin(c, group_mins)
    \/ \E c \in {"a", "b", "m"} : UndoRebinSet(c, Str("all", 0))
    \/ \E x, y \in {"a", "b", "e"} : Merge(x, y)

SpecMerge == InitMerge /\ [][NextMerge]_vars

-----------------------------------------------------------------------------
(* SpecCts: one call of group_cts on every input within the bounds.        *)

\* the count sequences given to a grouping call
CountsInputs == UNION {[1..n -> 0..MaxCount] : n \in 0..MaxChan}

\* the thresholds given to a grouping call
GroupMinInputs == {IntV(n) : n \in (0 - 1)..MaxGroupMin} \cup {NoneV, FloatV(2)}

NoLoadSpecs ==
    /\ heap = <<>>
    /\ pre_rebin = <<>>
    /\ colls = [c \in CollNames |-> NoLoadSpec]
    /\ last = NoCall

\* the inputs of a call of group_cts: the bounded ones, and ten channels
\* holding 1..10 counts with the threshold 5
CtsCounts == CountsInputs \cup {[i \in 1..10 |-> i]}

CtsGroupMins == GroupMinInputs \cup {IntV(5)}

InitCts ==
    /\ NoLoadSpecs
    /\ pf = PfIdle
    /\ sd = SdIdle
    /\ \E counts \in CtsCounts, group_min \in CtsGroupMins :
          gc = [pc |-> "call", channel_bins |-> UnitBins(Len(counts)),
                counts |-> counts, group_min |-> group_min]

\* group_cts(channel_bins, counts, group_min=group_min)
GroupCtsCall ==
    /\ gc.pc = "call"
    /\ gc' = [pc |-> "done", channel_bins |-> gc.channel_bins,
              counts |-> gc.counts, group_min |-> gc.group_min,
              out |-> group_cts(gc.channel_bins, gc.counts, gc.group_min)]
    /\ UNCHANGED <<heap, pre_rebin, colls, last, pf, sd>>

NextCts == GroupCtsCall

SpecCts == InitCts /\ [][NextCts]_vars

-----------------------------------------------------------------------------
(* SpecFinder: group_pha_finder, one step per pass of its while loop.      *)

\* the count sequences given to group_pha_finder: the bounded ones and four
\* channels of one count each
FinderCounts == CountsInputs \cup {<<1, 1, 1, 1>>}

InitFinder ==
    /\ NoLoadSpecs
    /\ gc = GcIdle
    /\ sd = SdIdle
    /\ \E counts \in FinderCounts, group_min \in GroupMinInputs :
          pf = [pc |-> "enter", channels |-> UnitBins(Len(counts)),
                counts |-> counts, group_min |-> group_min,
                cand |-> 0, result |-> NoneV]

\* an entry that starts the search one below the candidate given
PhaFinderEnterBelow ==
    /\ pf.pc = "enter"
    /\ pf' = IF ~ValidGroupMin(pf.group_min)
             THEN [pf EXCEPT !.pc = "returned"]
             ELSE [pf EXCEPT !.pc = "loop", !.cand = pf.group_min.val - 1]
    /\ UNCHANGED <<heap, pre_rebin, colls, last, gc, sd>>

\* lines 461-466: the guard; np.sum(counts)
PhaFinderEnter ==
    /\ pf.pc = "enter"
    /\ pf' = IF ~ValidGroupMin(pf.group_min)
             THEN [pf EXCEPT !.pc = "returned"]
             ELSE [pf EXCEPT !.pc = "loop", !.cand = pf.group_min.val]
    /\ UNCHANGED <<heap, pre_rebin, colls, last, gc, sd>>

\* lines 486-487: counts are left over, the next candidate is tried
PhaFinderRetry ==
    /\ pf.pc = "loop"
    /\ PhaFinderPass(pf.channels, pf.counts, pf.cand).combin # 0
    /\ pf.cand < MaxCand
    /\ pf' = [pf EXCEPT !.cand = @ + 1]
    /\ UNCHANGED <<heap, pre_rebin, colls, last, gc, sd>>

\* lines 488-490: nothing is left over and the candidate is the total
PhaFinderGiveUp ==
    /\ pf.pc = "loop"
    /\ PhaFinderPass(pf.channels, pf.counts, pf.cand).combin = 0
    /\ pf.cand = SumSeq(pf.counts)
    /\ pf' = [pf EXCEPT !.pc = "returned"]
    /\ UNCHANGED <<heap, pre_rebin, colls, last, gc, sd>>

\* lines 491-493: nothing is left over
PhaFinderReturn ==
    /\ pf.pc = "loop"
    /\ PhaFinderPass(pf.channels, pf.counts, pf.cand).combin = 0
    /\ pf.cand # SumSeq(pf.counts)
    /\ pf' = [pf EXCEPT
                !.pc = "returned",
                !.result = [type |-> "tuple",
                            bins |-> PhaFinderPass(pf.channels, pf.counts,
                                                   pf.cand).binned_channel,
                            group_min |-> pf.cand]]
    /\ UNCHANGED <<heap, pre_rebin, colls, last, gc, sd>>

NextFinder ==
    \/ PhaFinderEnter
    \/ PhaFinderRetry
    \/ PhaFinderGiveUp
    \/ PhaFinderReturn

SpecFinder == InitFinder /\ [][NextFinder]_vars

-----------------------------------------------------------------------------
(* SpecData: one construction of a SpectrumData on every combination of    *)
(* arguments within the bounds.                                            *)

\* 1-d arrays of the sizes 0..n holding 1, 2, ...
Vecs(n) == {Vec([i \in 1..k |-> i]) : k \in 0..n}

\* edges 0, 2, 4, ... of up to n bins
Edges(n) == {Vec([i \in 1..k |-> 2 * (i - 1)]) : k \in 1..(n + 1)}

SdCounts == Vecs(MaxSize) \cup {Mat(1, MaxSize)}

SdCountsError == Vecs(MaxSize)

SdUnits == {"keV", "MeV", "s"}

SdResponses ==
    {Mat(r, c) : r \in 0..MaxSize, c \in 0..MaxSize} \cup {Vec(<<1>>)}

SdExposures == {Scalar(2)} \cup Vecs(MaxSize)

Text(t) == [type |-> "str", text |-> t]

SdDistributions == {Text(t) : t \in SAMPLE_OPTIONS \cup {"Uniform"}} \cup {NoneV}

InitData ==
    /\ NoLoadSpecs
    /\ gc = GcIdle
    /\ pf = PfIdle
    /\ \E counts \in SdCounts, counts_error \in SdCountsError,
          counts_energy_edges \in Edges(MaxSize), unit \in SdUnits,
          photons_energy_edges \in Edges(MaxSize),
          spectral_response_matrix \in SdResponses,
          effective_exposure \in SdExposures,
          sample_distribution \in SdDistributions :
          sd = [pc |-> "call",
                args |-> [counts |-> counts,
                          counts_error |-> counts_error,
                          counts_energy_edges |-> counts_energy_edges,
                          counts_energy_unit |-> unit,
                          photons_energy_edges |-> photons_energy_edges,
                          spectral_response_matrix |->
                              spectral_response_matrix,
                          effective_exposure |-> effective_exposure,
                          sample_distribution |-> sample_distribution]]

\* SpectrumData(counts=..., ..., sample_distribution=...)
NewSpectrumData ==
    /\ sd.pc = "call"
    /\ sd' = [pc |-> "done", args |-> sd.args, out |-> SpectrumData(sd.args)]
    /\ UNCHANGED <<heap, pre_rebin, colls, last, gc, pf>>

NextData == NewSpectrumData

SpecData == InitData /\ [][NextData]_vars

-----------------------------------------------------------------------------
(* The claims.                                                             *)

\* the threshold recorded for spectrum k of a collection (None if none is)
RecordedGroupMin(coll, k) ==
    IF "_rebin_setting" \in coll.attrs /\ k \in DOMAIN coll._rebin_setting
    THEN coll._rebin_setting[k] ELSE NoneV

\* whether the value of _undo_rebin selects spectrum k
Selects(undo, k) ==
    \/ undo.type = "str"
    \/ undo.type = "list" /\ \E i \in 1..Len(undo.elems) : undo.elems[i] = k

OriginalKeys == {OriginalKey(RecordKeys[i]) :
                    i \in {j \in 1..Len(RecordKeys) :
                             RecordKeys[j] \notin {"effective_exposure",
                                                   "extras"}}}

UndoOps == {"undo_rebin", "undo_rebin_get"}

\* C1: when undo_rebin completes on a spectrum that rebin(m), m a positive
\* integer, left rebinned, every archived field of the spectrum (bins,
\* counts, rate, rate error, response matrix and the others) has the value
\* it had before the spectrum was rebinned, and no original_<field> key is
\* left in its extras.
RebinThenUndoRestores ==
    [][\A c \in CollNames :
         \A i \in 1..Len(colls[c].loaded_spec_data) :
            LET k == colls[c].loaded_spec_data[i].key
                o == colls[c].loaded_spec_data[i].obj
            IN (/\ _rebin_check(heap[o])
                /\ ValidGroupMin(RecordedGroupMin(colls[c], k))
                /\ last'.op \in UndoOps
                /\ last'.coll = c
                /\ last'.raised = "none"
                /\ Selects(colls'[c]._undo_rebin, k))
               => /\ heap'[o] = pre_rebin[o]
                  /\ DOMAIN heap'[o].extras \cap OriginalKeys = {}]_vars

\* C1 witness: undo_rebin = "spectrum1" has completed after a rebin with a
\* positive threshold that changed the counts: spectrum1 is as it was loaded
\* and spectrum2 is still rebinned.
RebinThenUndoRestoresWitness ==
    /\ last.op = "undo_rebin"
    /\ last.arg = Str("spectrum", 1)
    /\ last.raised = "none"
    /\ 1 \in last.was_rebinned
    /\ ~_rebin_check(heap[1])
    /\ heap[1] = pre_rebin[1]
    /\ heap[1].counts = <<1, 1, 1>>
    /\ _rebin_check(heap[2])
    /\ heap[2].counts = <<2, 0>>
    /\ ValidGroupMin(RecordedGroupMin(colls["a"], 2))

MergedSharesNothing ==
    [][(/\ colls["m"].exists
        /\ last'.coll = "m"
        /\ last'.op \in UndoOps \cup {"rebin"})
       => \A c \in {"a", "b", "e"} :
             \A o \in Objs(colls[c]) : heap'[o] = heap[o]]_vars

\* C4: group_cts with a positive integer threshold returns for every
\* sequence of counts, also when no bin ever closes: it never raises.
GroupCtsNeverRaises ==
    (gc.pc = "done" /\ ValidGroupMin(gc.group_min))
        => gc.out.raised = "none"

\* C5: the candidate threshold of group_pha_finder never grows past the
\* total of the counts (where it would return without a result).
FinderCandidateBounded ==
    (pf.pc = "loop" /\ pf.cand > pf.group_min.val)
        => pf.cand <= SumSeq(pf.counts)

\* C6: a spectrum counts as rebinned (_rebin_check) exactly when its
\* extras hold original_counts, and then they hold the archived copy of
\* every binning-dependent field, original_srm among them; otherwise of
\* none.
ArchiveAllOrNothing ==
    \A o \in DOMAIN heap :
        /\ _rebin_check(heap[o]) <=> "original_counts" \in DOMAIN heap[o].extras
        /\ \A k \in OriginalKeys :
              k \in DOMAIN heap[o].extras
                 <=> "original_counts" \in DOMAIN heap[o].extras

\* C6 witness: after an undo_rebin of spectrum1 alone, spectrum1 holds no
\* archive and spectrum2 holds all of it.
ArchiveAllOrNothingWitness ==
    /\ last.op = "undo_rebin"
    /\ 1 \in last.was_rebinned
    /\ DOMAIN heap[1].extras \cap OriginalKeys = {}
    /\ OriginalKeys \subseteq DOMAIN heap[2].extras

\* C7: a merge that returns gives a collection of N+M spectra under the
\* keys spectrum1..spectrumN+M: the first N hold the entries of self, the
\* next M those of other in other's order.
MergeKeysAndOrder ==
    (last.op = "add" /\ last.raised = "none")
        => LET self == colls[last.arg.self].loaded_spec_data
               other == colls[last.arg.other].loaded_spec_data
               merged == colls["m"].loaded_spec_data
           IN /\ Len(merged) = Len(self) + Len(other)
              /\ KeySet(colls["m"]) = 1..(Len(self) + Len(other))
              /\ \A i \in 1..Len(self) :
                    heap[ObjOf(colls["m"], i)] = heap[self[i].obj]
              /\ \A j \in 1..Len(other) :
                    heap[ObjOf(colls["m"], Len(self) + j)] = heap[other[j].obj]

\* C7 witness: b + a has returned three spectra; the two of a, which
\* differ, are spectrum2 and spectrum3.
MergeKeysAndOrderWitness ==
    /\ last.op = "add"
    /\ last.raised = "none"
    /\ last.arg.self = "b"
    /\ last.arg.other = "a"
    /\ Len(colls["m"].loaded_spec_data) = 3
    /\ heap[ObjOf(colls["m"], 2)] # heap[ObjOf(colls["m"], 3)]

\* C8: a merge with an operand that has no loaded spectrum fails: it
\* raises and returns no collection.
MergeWithEmptyFails ==
    (/\ last.op = "add"
     /\ \/ colls[last.arg.self].loaded_spec_data = <<>>
        \/ colls[last.arg.other].loaded_spec_data = <<>>)
        => (last.raised # "none" /\ ~colls["m"].exists)

\* C9: a rebin with an integer threshold that is not positive changes
\* nothing: no working field, no extras, no recorded threshold.
InvalidThresholdLeavesState ==
    [][(last'.op = "rebin" /\ IsInt(last'.arg) /\ last'.arg.val <= 0)
       => (heap' = heap /\ colls' = colls)]_vars

\* whether the selector is malformed or names a spectrum that is not loaded
BadSelector(coll, spectrum) ==
    \/ spectrum.type = "str" /\ spectrum.kind = "other"
    \/ /\ \/ spectrum.type = "int"
          \/ spectrum.type = "str" /\ spectrum.kind \in {"number", "spectrum"}
       /\ spectrum.val \notin KeySet(coll)

\* C10: undo_rebin with a malformed selector, or one naming a spectrum that
\* is not loaded, does not raise and leaves every spectrum and the recorded
\* rebin settings as they were.
UndoBadSelectorIsNoOp ==
    [][\A c \in CollNames :
          (/\ last'.op = "undo_rebin" /\ last'.coll = c
           /\ BadSelector(colls[c], last'.arg))
          => /\ last'.raised = "none"
             /\ heap' = heap
             /\ colls'[c]._rebin_setting = colls[c]._rebin_setting
             /\ colls'[c]._rebinned_edges = colls[c]._rebinned_edges]_vars

\* a finished call of group_pha_finder on the counts 1, 1, 1, 1 that started
\* at the candidate 1
FinderOnesFromOne ==
    /\ pf.pc = "returned"
    /\ pf.counts = <<1, 1, 1, 1>>
    /\ pf.group_min = IntV(1)

\* C11 (as the code has it): group_pha_finder started at the candidate 1 on
\* the counts 1, 1, 1, 1 returns the threshold 1, the first candidate that
\* leaves nothing over, with the four channels as its bins.
FinderOnesReturnsOne ==
    FinderOnesFromOne
        => /\ pf.result.type = "tuple"
           /\ pf.result.group_min = 1
           /\ pf.result.bins = UnitBins(4)

\* C11 witness: the call on 1, 1, 1, 1 from the candidate 1 has returned a
\* result.
FinderOnesWitness ==
    FinderOnesFromOne /\ pf.result.type = "tuple" /\ pf.cand = 1

\* C11 (as stated): group_pha_finder started at the candidate 1 on the
\* counts 1, 1, 1, 1 returns the threshold 4.
FinderOnesReturnsFour ==
    FinderOnesFromOne
        => (pf.result.type = "tuple" /\ pf.result.group_min = 4)

\* The greedy left-to-right grouping as the specification words it: the
\* accumulator acc holds the channels taken since the last closed bin
\* (pending: there is one; total: their counts; low: the left edge of the
\* first of them).
RECURSIVE GreedyWalk(_, _, _, _, _)
RECURSIVE GreedyWalkPending(_, _, _, _, _)
GreedyWalk(channel_bins, counts, m, c, acc) ==
    IF c > Len(counts) THEN acc
    ELSE IF ~acc.pending /\ counts[c] >= m
    THEN GreedyWalk(channel_bins, counts, m, c + 1,
                    [acc EXCEPT !.bins = Append(@, channel_bins[c]),
                                !.counts = Append(@, counts[c])])
    ELSE IF acc.total + counts[c] >= m
    THEN GreedyWalk(channel_bins, counts, m, c + 1,
                    [bins |-> Append(acc.bins,
                                     <<IF acc.pending THEN acc.low
                                       ELSE channel_bins[c][1],
                                       channel_bins[c][2]>>),
                     counts |-> Append(acc.counts, acc.total + counts[c]),
                     pending |-> FALSE, total |-> 0, low |-> 0])
    ELSE GreedyWalkPending(channel_bins, counts, m, c, acc)

\* the walk goes on with channel c taken into the accumulator
GreedyWalkPending(channel_bins, counts, m, c, acc) ==
    GreedyWalk(channel_bins, counts, m, c + 1,
               [acc EXCEPT !.pending = TRUE,
                           !.total = @ + counts[c],
                           !.low = IF acc.pending THEN @
                                   ELSE channel_bins[c][1]])

\* the closed bins, then the channels beyond the last closed bin (all of
\* them if no bin closed) with a count of zero; the leftover is dropped
GreedyReference(channel_bins, counts, m) ==
    LET acc == GreedyWalk(channel_bins, counts, m, 1,
                          [bins |-> <<>>, counts |-> <<>>, pending |-> FALSE,
                           total |-> 0, low |-> 0])
        rest == IF acc.bins = <<>> THEN channel_bins
                ELSE SelectSeq(channel_bins,
                               LAMBDA b : b[2] > acc.bins[Len(acc.bins)][2])
    IN [bins |-> acc.bins \o rest,
        counts |-> acc.counts \o [i \in 1..Len(rest) |-> 0],
        leftover |-> acc.total]

\* C12: for every input with a positive integer threshold, group_cts
\* returns the bins, the counts and the leftover of the greedy
\* left-to-right reference.
GroupCtsMatchesReference ==
    (gc.pc = "done" /\ ValidGroupMin(gc.group_min))
        => /\ gc.out.raised = "none"
           /\ gc.out.bins =
                 GreedyReference(gc.channel_bins, gc.counts,
                                 gc.group_min.val).bins
           /\ gc.out.counts =
                 GreedyReference(gc.channel_bins, gc.counts,
                                 gc.group_min.val).counts
           /\ gc.out.leftover =
                 GreedyReference(gc.channel_bins, gc.counts,
                                 gc.group_min.val).leftover

\* C12 witness: the call on the counts 1..10 over unit channels with the
\* threshold 5 has returned the bins [0,3], [3,5], [5,6], ..., [9,10] with
\* the counts 6, 9, 6, 7, 8, 9, 10 and nothing left over.
GroupCtsFixtureWitness ==
    /\ gc.pc = "done"
    /\ gc.counts = [i \in 1..10 |-> i]
    /\ gc.channel_bins = UnitBins(10)
    /\ gc.group_min = IntV(5)
    /\ gc.out.raised = "none"
    /\ gc.out.bins = <<<<0, 3>>, <<3, 5>>, <<5, 6>>, <<6, 7>>, <<7, 8>>,
                       <<8, 9>>, <<9, 10>>>>
    /\ gc.out.counts = <<6, 9, 6, 7, 8, 9, 10>>
    /\ gc.out.leftover = 0

\* C13: with the threshold None, or any other threshold that is not an
\* integer > 0, group_cts returns the channel bins and counts it was given,
\* unchanged and in order, and raises nothing.
InvalidGroupMinReturnsInput ==
    (gc.pc = "done" /\ ~ValidGroupMin(gc.group_min))
        => /\ gc.out.raised = "none"
           /\ gc.out.bins = gc.channel_bins
           /\ gc.out.counts = gc.counts

\* C13 witness: a call with a float threshold that a valid threshold of
\* the same value would have grouped has returned its input.
InvalidGroupMinWitness ==
    /\ gc.pc = "done"
    /\ gc.group_min = FloatV(2)
    /\ gc.counts = <<1, 1, 2>>
    /\ gc.out.counts = <<1, 1, 2>>
    /\ gc.out.bins = UnitBins(3)
    /\ group_cts(gc.channel_bins, gc.counts, IntV(2)).counts = <<2, 2>>

\* whether the selector names the one spectrum k: k, "k" or "spectrumk"
NamesOne(spectrum, k) ==
    /\ \/ spectrum.type = "int"
       \/ spectrum.type = "str" /\ spectrum.kind \in {"number", "spectrum"}
    /\ spectrum.val = k

\* C14: undo_rebin on a loaded spectrum that is not rebinned raises
\* nothing and changes nothing: not that spectrum (working fields and
\* extras), not another spectrum, not the recorded rebin settings.
UndoOfUnbinnedIsNoOp ==
    [][\A c \in CollNames :
         \A i \in 1..Len(colls[c].loaded_spec_data) :
            (/\ last'.op = "undo_rebin" /\ last'.coll = c
             /\ NamesOne(last'.arg, colls[c].loaded_spec_data[i].key)
             /\ ~_rebin_check(heap[colls[c].loaded_spec_data[i].obj]))
            => /\ last'.raised = "none"
               /\ heap' = heap
               /\ colls'[c]._rebin_setting = colls[c]._rebin_setting
               /\ colls'[c]._rebinned_edges = colls[c]._rebinned_edges
               /\ colls'[c].attrs \ {"_undo_rebin"}
                     = colls[c].attrs \ {"_undo_rebin"}]_vars

\* C14 witness: undo_rebin = "spectrum1" has returned on a collection
\* whose spectrum1 was not rebinned and whose spectrum2 was, and still is,
\* with its threshold still recorded.
UndoOfUnbinnedWitness ==
    /\ last.op = "undo_rebin"
    /\ last.arg = Str("spectrum", 1)
    /\ last.raised = "none"
    /\ last.was_rebinned = {2}
    /\ _rebin_check(heap[2])
    /\ heap[2].counts = <<2, 0>>
    /\ ValidGroupMin(RecordedGroupMin(colls["a"], 2))

\* whether the collection remembers the selector None
NothingPending(coll) ==
    "_undo_rebin" \in coll.attrs /\ coll._undo_rebin.type = "NoneType"

\* C15: reading the property undo_rebin does what undo_rebin = "all" does,
\* whatever selector an earlier call left (unless it was None): the same
\* spectra afterwards, the same outcome.
UndoReadIsUndoAll ==
    [][\A c \in CollNames :
          (/\ last'.op = "undo_rebin_get" /\ last'.coll = c
           /\ ~NothingPending(colls[c]))
          => /\ heap' = UndoRebinSetter(colls[c], heap, Str("all", 0)).heap
             /\ last'.raised
                   = UndoRebinSetter(colls[c], heap, Str("all", 0)).raised]_vars

\* C16: once undo_rebin = None was called, that call and every later read
\* of undo_rebin change no spectrum and no recorded setting, rebinned
\* spectra or not, as long as None is the selector remembered.
UndoNoneChangesNothing ==
    [][\A c \in CollNames :
          (/\ last'.coll = c
           /\ \/ last'.op = "undo_rebin" /\ last'.arg = NoneV
              \/ last'.op = "undo_rebin_get" /\ NothingPending(colls[c]))
          => /\ last'.raised = "none"
             /\ heap' = heap
             /\ colls'[c]._rebin_setting = colls[c]._rebin_setting
             /\ colls'[c]._rebinned_edges = colls[c]._rebinned_edges
             /\ NothingPending(colls'[c])]_vars

\* C16 witness: with None remembered, undo_rebin has been read on a
\* collection whose two spectra were rebinned, and they still are.
UndoNoneWitness ==
    /\ last.op = "undo_rebin_get"
    /\ last.raised = "none"
    /\ last.was_rebinned = {1, 2}
    /\ NothingPending(colls["a"])
    /\ _rebin_check(heap[1]) /\ _rebin_check(heap[2])
    /\ heap[1].counts = <<2, 0>>

\* whether the selector is a list of numbers and identifiers of loaded
\* spectra
ListOfLoaded(coll, spectrum) ==
    /\ spectrum.type = "list"
    /\ spectrum.elems # <<>>
    /\ \A i \in 1..Len(spectrum.elems) :
          \E k \in KeySet(coll) : NamesOne(spectrum.elems[i], k)

\* C17: undo_rebin with a list of spectrum identifiers and ordinal numbers
\* raises nothing and undoes the listed spectra that are rebinned, and no
\* other.
UndoListUndoesListed ==
    [][\A c \in CollNames :
          (/\ last'.op = "undo_rebin" /\ last'.coll = c
           /\ ListOfLoaded(colls[c], last'.arg))
          => /\ last'.raised = "none"
             /\ \A i \in 1..Len(colls[c].loaded_spec_data) :
                   LET k == colls[c].loaded_spec_data[i].key
                       o == colls[c].loaded_spec_data[i].obj
                   IN IF \E j \in 1..Len(last'.arg.elems) :
                            NamesOne(last'.arg.elems[j], k)
                      THEN ~_rebin_check(heap'[o])
                      ELSE heap'[o] = heap[o]]_vars

-----------------------------------------------------------------------------
(* SpectrumData.                                                           *)

\* len(a): the first entry of the shape
Length(a) == a.shape[1]

Constructed == sd.pc = "done"

InputFields ==
    {"counts", "counts_error", "counts_energy_edges", "photons_energy_edges",
     "spectral_response_matrix", "effective_exposure", "sample_distribution"}

\* the conditions on the sizes, the shape and the distribution
SizesAgree(args) ==
    /\ Length(args.counts) = Length(args.counts_error)
    /\ Length(args.counts_error) = Length(args.counts_energy_edges) - 1
    /\ Size(args.effective_exposure) \in {1, Length(args.counts)}
    /\ args.spectral_response_matrix.shape
         = <<Length(args.photons_energy_edges) - 1,
             Length(args.counts_energy_edges) - 1>>
    /\ args.sample_distribution \in {Text("Gaussian"), Text("Poissonian")}

\* C18: a construction returns an object only if the sizes of counts,
\* counts_error and the count edges agree, the exposure has size 1 or that
\* of counts, the response matrix has the shape (photon bins, count bins)
\* and the distribution is Gaussian or Poissonian; when one of them is
\* violated the construction raises and returns no object.
ConstructionOnlyIfSizesAgree ==
    Constructed =>
        /\ sd.out.returned => SizesAgree(sd.args)
        /\ ~SizesAgree(sd.args) =>
               sd.out.raised # "none" /\ ~sd.out.returned

ConstructionWitness ==
    /\ Constructed
    /\ sd.out.returned
    /\ Length(sd.args.counts) = MaxSize
    /\ sd.args.effective_exposure.ndim = 1

\* the response matrix is not of the shape (P, K)
WrongShape(args) ==
    args.spectral_response_matrix.shape
        # <<Length(args.photons_energy_edges) - 1, Length(args.counts)>>

\* C19 (amended): a construction with a response matrix not of the shape
\* (P, K) always raises, returns no object and never computes the widths;
\* when the error is the ValueError of _check_valid_args the seven input
\* fields are already assigned on the object under construction.
WrongShapeAlwaysFails ==
    (Constructed /\ WrongShape(sd.args)) =>
        /\ sd.out.raised \in {"ValueError", "UnitsError"}
        /\ ~sd.out.returned
        /\ DOMAIN sd.out.self \cap
               {"counts_energy_widths", "photons_energy_widths"} = {}
        /\ sd.out.raised = "ValueError" => DOMAIN sd.out.self = InputFields

WrongShapeWitness ==
    /\ Constructed
    /\ WrongShape(sd.args)
    /\ sd.out.failed = "srm shape"
    /\ DOMAIN sd.out.self = InputFields

\* C19 (as stated): a construction with a response matrix not of the shape
\* (P, K) always raises, and no field of the object is set when it does.
WrongShapeFailsBeforeFields ==
    (Constructed /\ WrongShape(sd.args)) =>
        /\ sd.out.raised # "none"
        /\ DOMAIN sd.out.self = {}

\* the invariants of a valid input: ranks, sizes, shape, distribution, and
\* edges given in a unit of energy
ValidInput(args) ==
    /\ args.counts.ndim = 1
    /\ args.counts_error.ndim = 1
    /\ args.counts_energy_edges.ndim = 1
    /\ args.spectral_response_matrix.ndim = 2
    /\ args.effective_exposure.ndim \in {0, 1}
    /\ SizesAgree(args)
    /\ ConvertsToKeV(args.counts_energy_unit)

\* the stored magnitudes (keV) are the given quantity
SameQuantity(stored, given, unit) ==
    /\ stored.shape = given.shape
    /\ \A i \in 1..Len(given.data) :
           stored.data[i] = given.data[i] * KeVPer(unit)

\* widths are the successive differences of edges
WidthsOf(widths, edges, n) ==
    /\ widths.ndim = 1
    /\ Size(widths) = n
    /\ Len(widths.data) = n
    /\ \A i \in 1..n : widths.data[i] = edges.data[i + 1] - edges.data[i]

\* C20: for a valid input the object is returned with counts, counts_error,
\* the two arrays of edges, the response matrix, the exposure and the
\* distribution equal to what was given, and the two arrays of widths are
\* the successive differences of the edges stored, of the lengths
\* len(counts) and len(photons_energy_edges) - 1.
ValidInputIsStored ==
    (Constructed /\ ValidInput(sd.args)) =>
        /\ sd.out.returned
        /\ sd.out.self.counts = sd.args.counts
        /\ sd.out.self.counts_error = sd.args.counts_error
        /\ SameQuantity(sd.out.self.counts_energy_edges,
                        sd.args.counts_energy_edges,
                        sd.args.counts_energy_unit)
        /\ sd.out.self.photons_energy_edges = sd.args.photons_energy_edges
        /\ sd.out.self.spectral_response_matrix
             = sd.args.spectral_response_matrix
        /\ sd.out.self.effective_exposure = sd.args.effective_exposure
        /\ Text(sd.out.self.sample_distribution)
             = sd.args.sample_distribution
        /\ WidthsOf(sd.out.self.counts_energy_widths,
                    sd.out.self.counts_energy_edges,
                    Length(sd.args.counts))
        /\ WidthsOf(sd.out.self.photons_energy_widths,
                    sd.out.self.photons_energy_edges,
                    Length(sd.args.photons_energy_edges) - 1)

ValidInputWitness ==
    /\ Constructed
    /\ ValidInput(sd.args)
    /\ sd.args.counts_energy_unit = "MeV"
    /\ Length(sd.args.counts) = MaxSize
    /\ Length(sd.args.photons_energy_edges) = MaxSize + 1

-----------------------------------------------------------------------------
(* group_cts: the bins it closes and the channels it appends.              *)

\* a call of group_cts with a positive integer threshold has ended
GroupCtsEnded == gc.pc = "done" /\ ValidGroupMin(gc.group_min)

\* the state the for loop of the call ended in
GroupCtsEnd ==
    GroupCtsLoop(GroupCtsStart, gc.channel_bins, gc.counts,
                 gc.group_min.val, 1)

\* the number of bins the loop closed
ClosedBins == Len(GroupCtsEnd.binned_channel)

\* the input channels a bin spans
Spanned(b) ==
    {c \in 1..Len(gc.channel_bins) :
        gc.channel_bins[c][1] >= b[1] /\ gc.channel_bins[c][2] <= b[2]}

\* the sum of the input counts of the channels a bin spans
SpannedCounts(b) ==
    SumSeq([c \in 1..Len(gc.counts) |->
               IF c \in Spanned(b) THEN gc.counts[c] ELSE 0])

\* C21: when group_cts returns for a positive integer m, every closed bin
\* of the output has a count >= m, and that count is the sum of the input
\* counts of the channels the bin spans.
ClosedBinsReachThreshold ==
    (GroupCtsEnded /\ gc.out.raised = "none") =>
        \A i \in 1..ClosedBins :
            /\ gc.out.counts[i] >= gc.group_min.val
            /\ gc.out.counts[i] = SpannedCounts(gc.out.bins[i])

ClosedBinsWitness ==
    /\ GroupCtsEnded
    /\ gc.out.raised = "none"
    /\ ClosedBins >= 2
    /\ \E i \in 1..ClosedBins :
           /\ Cardinality(Spanned(gc.out.bins[i])) >= 2
           /\ gc.out.counts[i] > gc.group_min.val

\* the channels beyond the right edge of the last closed bin: every channel
\* when no bin was closed
BeyondClosed ==
    IF ClosedBins = 0 THEN gc.channel_bins
    ELSE SelectSeq(gc.channel_bins,
                   LAMBDA b : b[2] > gc.out.bins[ClosedBins][2])

\* the output is the closed bins followed by the channels beyond them, each
\* with the count 0
LeftoverChannelsAppended ==
    /\ gc.out.raised = "none"
    /\ Len(gc.out.bins) = Len(gc.out.counts)
    /\ Len(gc.out.bins) = ClosedBins + Len(BeyondClosed)
    /\ \A j \in 1..Len(BeyondClosed) :
           /\ gc.out.bins[ClosedBins + j] = BeyondClosed[j]
           /\ gc.out.counts[ClosedBins + j] = 0

\* C22: when the input is exhausted with a pending accumulation below m,
\* the output is the closed bins followed by exactly the channels beyond
\* the last closed bin, each at its original interval with the count 0,
\* and the output bins and counts have the same length.
LeftoverAppendedAsZeros ==
    (GroupCtsEnded /\ GroupCtsEnd.combin > 0) => LeftoverChannelsAppended

\* a call that ends with a pending accumulation after it closed a bin
LeftoverAfterClosedBin ==
    /\ GroupCtsEnded
    /\ GroupCtsEnd.combin > 0
    /\ ClosedBins > 0
    /\ LeftoverChannelsAppended

\* the bins are unions of consecutive channels that follow one another from
\* the first channel to the last
CoversChannels(bins, channel_bins) ==
    /\ Len(bins) <= Len(channel_bins)
    /\ (Len(bins) = 0) = (Len(channel_bins) = 0)
    /\ \A i \in 1..Len(bins) :
           \E a \in 1..Len(channel_bins), b \in 1..Len(channel_bins) :
               a <= b /\ bins[i] = <<channel_bins[a][1], channel_bins[b][2]>>
    /\ Len(bins) > 0 =>
           /\ bins[1][1] = channel_bins[1][1]
           /\ bins[Len(bins)][2] = channel_bins[Len(channel_bins)][2]
    /\ \A i \in 1..(Len(bins) - 1) : bins[i][2] = bins[i + 1][1]

-----------------------------------------------------------------------------
(* The archive and the settings of a collection.                           *)

\* the archive of the record holds, for every archived field, the value
\* the field has in `before`
ArchiveHolds(rec, before) ==
    \A s_att \in ArchivedAtts(before) :
        /\ OriginalKey(s_att) \in DOMAIN rec.extras
        /\ rec.extras[OriginalKey(s_att)] = before[s_att]

\* C24: the archive is written on the transition from unbinned to binned
\* only: whatever rebin calls follow, the original_<field> values of a
\* rebinned spectrum are the values its fields had before the first of
\* those rebins (pre_rebin).
ArchiveKeepsFirstOriginals ==
    \A o \in DOMAIN heap :
        _rebin_check(heap[o]) => ArchiveHolds(heap[o], pre_rebin[o])

\* C24 witness: a rebin has completed on spectrum1, which was already
\* rebinned to other bins before the call, and its archive holds the bins
\* it was loaded with.
ArchiveKeepsFirstOriginalsWitness ==
    /\ last.op = "rebin"
    /\ last.raised = "none"
    /\ 1 \in last.was_rebinned
    /\ _rebin_check(heap[1])
    /\ heap[1].count_channel_bins # pre_rebin[1].count_channel_bins
    /\ ArchiveHolds(heap[1], pre_rebin[1])
    /\ pre_rebin[1].count_channel_bins = UnitBins(MaxChan)

\* the bins, centres, widths, counts and rates of the record describe one
\* binning
OneBinning(rec) ==
    /\ Len(rec.counts) = Len(rec.count_channel_bins)
    /\ rec.count_channel_mids = Mids(rec.count_channel_bins)
    /\ rec.count_channel_binning = Diff(rec.count_channel_bins)
    /\ rec.count_rate
         = CountRate(rec.counts, rec.count_channel_binning,
                     rec.effective_exposure)
    /\ rec.count_rate_error
         = CountRateError(rec.counts, rec.count_channel_binning,
                          rec.effective_exposure)

\* C25: in every state between operations, after a completed or a failed
\* rebin or undo_rebin, the count_channel_bins, count_channel_mids,
\* count_channel_binning, counts, count_rate and count_rate_error of every
\* spectrum describe the same binning and have the same number of entries.
BinsAndCountsAgree ==
    \A o \in DOMAIN heap : OneBinning(heap[o])

\* C25 witness: a rebin has failed on spectrum2 after it rebinned
\* spectrum1.
BinsAndCountsAgreeWitness ==
    /\ last.op = "rebin"
    /\ last.raised # "none"
    /\ 1 \notin last.was_rebinned
    /\ _rebin_check(heap[1])
    /\ ~_rebin_check(heap[2])

\* the collection records a setting and the edges of the spectrum k
HasSettings(coll, k) ==
    /\ {"_rebin_setting", "_rebinned_edges"} \subseteq coll.attrs
    /\ k \in DOMAIN coll._rebin_setting
    /\ k \in DOMAIN coll._rebinned_edges

\* C26: after any sequence of rebin, undo_rebin and merge operations every
\* rebinned spectrum of a collection has an entry in _rebin_setting and an
\* entry in _rebinned_edges of that collection (the entries undo_rebin
\* deletes before it restores the spectrum).
RebinnedHasSettings ==
    \A c \in CollNames :
        \A i \in 1..Len(colls[c].loaded_spec_data) :
            _rebin_check(heap[colls[c].loaded_spec_data[i].obj])
                => HasSettings(colls[c], colls[c].loaded_spec_data[i].key)

-----------------------------------------------------------------------------
(* SpectrumData: the error of a construction.                              *)

\* the groups of invariants the stored values violate
Violated(self) ==
    {g \in {"1D"} :
        \/ \E f \in {"counts", "counts_error", "counts_energy_edges",
                     "photons_energy_edges"} : self[f].ndim # 1
        \/ self.effective_exposure.ndim > 1}
    \cup {g \in {"2D"} : self.spectral_response_matrix.ndim # 2}
    \cup {g \in {"sample_distribution"} :
             self.sample_distribution \notin {"Gaussian", "Poissonian"}}
    \cup {g \in {"counts size"} :
             \/ Size(self.counts) # Size(self.counts_error)
             \/ Size(self.counts) # Size(self.counts_energy_edges) - 1
             \/ Size(self.effective_exposure) \notin {1, Size(self.counts)}}
    \cup {g \in {"srm shape"} :
             self.spectral_response_matrix.shape
                 # <<Size(self.photons_energy_edges) - 1,
                     Size(self.counts_energy_edges) - 1>>}

\* the fixed order of the groups
GroupOrder ==
    <<"1D", "2D", "sample_distribution", "counts size", "srm shape">>

\* C27: the ValueError of a construction names the first group, in the
\* order 1-D dimensions, 2-D dimension of the response matrix,
\* distribution, sizes of the counts arrays, shape of the response matrix,
\* that the input violates.
ErrorNamesFirstViolated ==
    (Constructed /\ sd.out.raised = "ValueError") =>
        \E i \in 1..Len(GroupOrder) :
            /\ sd.out.failed = GroupOrder[i]
            /\ GroupOrder[i] \in Violated(sd.out.self)
            /\ \A j \in 1..(i - 1) : GroupOrder[j] \notin Violated(sd.out.self)

\* C27 witness: an input that violates the 2-D dimension, the distribution
\* and the sizes of the counts arrays at once.
ErrorNamesFirstViolatedWitness ==
    /\ Constructed
    /\ sd.out.raised = "ValueError"
    /\ {"2D", "sample_distribution", "counts size"}
           \subseteq Violated(sd.out.self)
    /\ "1D" \notin Violated(sd.out.self)
    /\ sd.out.failed = "2D"

-----------------------------------------------------------------------------
(* group_pha_finder: the threshold and the bins it returns.                *)

\* group_pha_finder has returned a result (bins, m)
FinderReturned == pf.pc = "returned" /\ pf.result.type = "tuple"

\* the count the greedy pass of group_cts leaves over with the threshold m
Leftover(m) ==
    GroupCtsLoop(GroupCtsStart, pf.channels, pf.counts, m, 1).combin

\* C28: when group_pha_finder returns (bins, m) for the starting candidate
\* m0, then m >= m0, the greedy pass with the threshold m leaves no count
\* over, and the pass with every candidate from m0 up to m - 1 leaves a
\* count over.
FinderReturnsFirstThreshold ==
    FinderReturned =>
        /\ pf.result.group_min >= pf.group_min.val
        /\ Leftover(pf.result.group_min) = 0
        /\ \A k \in pf.group_min.val..(pf.result.group_min - 1) :
               Leftover(k) # 0

\* C28 witness: a result whose threshold is above the starting candidate.
FinderReturnsFirstThresholdWitness ==
    /\ FinderReturned
    /\ pf.result.group_min > pf.group_min.val
    /\ Len(pf.result.bins) >= 1

\* the bins the loop of group_cts closes with the threshold m
ClosedByGroupCts(m) ==
    GroupCtsLoop(GroupCtsStart, pf.channels, pf.counts, m, 1).binned_channel

\* C30: the bins group_pha_finder returns with the threshold m are the
\* closed bins of group_cts for the same channels, counts and m.
FinderBinsAreGroupCtsBins ==
    FinderReturned =>
        pf.result.bins = ClosedByGroupCts(pf.result.group_min)

\* a result from counts without an empty channel, with a bin of several
\* channels, that has the closed bins of group_cts
FinderBinsAgreeWithoutZeros ==
    /\ FinderReturned
    /\ \A c \in 1..Len(pf.counts) : pf.counts[c] > 0
    /\ \E i \in 1..Len(pf.result.bins) :
           pf.result.bins[i][2] - pf.result.bins[i][1] >= 2
    /\ pf.result.bins = ClosedByGroupCts(pf.result.group_min)

-----------------------------------------------------------------------------
(* rebin with a dict that names some of the spectra.                       *)

\* the step is a call of rebin on a with a dict without "all"
RebinsByName ==
    /\ last'.op = "rebin"
    /\ last'.coll = "a"
    /\ last'.arg.type = "dict"
    /\ last'.arg.all.type = "absent"

\* C29: rebin with a dict of thresholds by spectrum leaves every loaded
\* spectrum the dict does not name as it was: its bins, counts, rates and
\* response matrix, its archive in extras and whether it is rebinned.
UnnamedSpectrumUnchanged ==
    [][RebinsByName =>
          \A i \in 1..Len(colls["a"].loaded_spec_data) :
              colls["a"].loaded_spec_data[i].key \notin DOMAIN last'.arg.per
                  => heap'[colls["a"].loaded_spec_data[i].obj]
                       = heap[colls["a"].loaded_spec_data[i].obj]]_vars

-----------------------------------------------------------------------------
(* group_cts: the counts it keeps and the counts it leaves over.           *)

\* the sum of the input counts of the channels appended after the closed
\* bins of the output
AppendedCounts ==
    SumSeq([j \in 1..(Len(gc.out.bins) - ClosedBins) |->
               SpannedCounts(gc.out.bins[ClosedBins + j])])

\* C31: when group_cts returns for a positive integer m, the sum of the
\* output counts is the sum of the input counts minus the leftover, the
\* leftover is the sum of the input counts of the appended remainder
\* channels, and it is less than m.
CountsConservedUpToLeftover ==
    (GroupCtsEnded /\ gc.out.raised = "none") =>
        /\ SumSeq(gc.out.counts) = SumSeq(gc.counts) - gc.out.leftover
        /\ gc.out.leftover = AppendedCounts
        /\ gc.out.leftover < gc.group_min.val

\* C31 witness: a call that closed a bin and left a count over in two
\* appended channels.
CountsConservedWitness ==
    /\ GroupCtsEnded
    /\ gc.out.raised = "none"
    /\ ClosedBins >= 1
    /\ Len(gc.out.bins) - ClosedBins >= 2
    /\ gc.out.leftover > 0

-----------------------------------------------------------------------------
(* undo_rebin on some of the spectra.                                      *)

\* whether the selector names the spectrum k, alone or in a list
NamesSpectrum(spectrum, k) ==
    \/ NamesOne(spectrum, k)
    \/ /\ spectrum.type = "list"
       /\ \E i \in 1..Len(spectrum.elems) : NamesOne(spectrum.elems[i], k)

\* C32: undo_rebin with a selector that names some of the loaded spectra
\* changes the spectra it names only: every other spectrum keeps its
\* working fields, its archive in extras, whether it is rebinned, and the
\* threshold recorded for it.
UndoChangesSelectedOnly ==
    [][\A c \in CollNames :
          (/\ last'.op = "undo_rebin"
           /\ last'.coll = c
           /\ \E k \in KeySet(colls[c]) : NamesSpectrum(last'.arg, k))
          => \A i \in 1..Len(colls[c].loaded_spec_data) :
                 LET k == colls[c].loaded_spec_data[i].key
                     o == colls[c].loaded_spec_data[i].obj
                 IN ~NamesSpectrum(last'.arg, k)
                    => /\ heap'[o] = heap[o]
                       /\ RecordedGroupMin(colls'[c], k)
                            = RecordedGroupMin(colls[c], k)]_vars

\* C32 witness: undo_rebin = "2" has restored spectrum2; spectrum1 is still
\* rebinned, to other bins than it was loaded with, under its recorded
\* threshold.
UndoChangesSelectedOnlyWitness ==
    /\ last.op = "undo_rebin"
    /\ last.arg = Str("number", 2)
    /\ last.raised = "none"
    /\ {1, 2} \subseteq last.was_rebinned
    /\ ~_rebin_check(heap[2])
    /\ _rebin_check(heap[1])
    /\ heap[1].count_channel_bins # pre_rebin[1].count_channel_bins
    /\ ValidGroupMin(RecordedGroupMin(colls["a"], 1))

====
